---- MODULE Spec2Model ----
(***************************************************************************)
(* A model of github.com/laonix/sample-handler, package transport/http:    *)
(*                                                                         *)
(*   - StatHolder (the counter store) and the RateLimit middleware with    *)
(*     its ticker goroutine (middleware.go);                               *)
(*   - ResponseSizeCounter, the handler that fans out one GET per URL of   *)
(*     the request body and renders the sizes of the bodies (handler.go).  *)
(*                                                                         *)
(* Every goroutine is a process with a program counter.  A step is one     *)
(* access to memory shared between goroutines (a mutex operation, a read   *)
(* or a write of a field of the shared StatHolder or ResponseSizeCounter)  *)
(* together with the goroutine-local computation around it.                *)
(***************************************************************************)
EXTENDS Integers, Sequences, FiniteSets, Bags, TLC

(***************************************************************************)
(* Bounds of the model.                                                    *)
(***************************************************************************)
\* Requests sent to the middleware in one behaviour.
NConn == 3
\* The limits a middleware is built with: 1..MaxLimit.
MaxLimit == 2
\* Requests sent to the ResponseSizeCounter in one behaviour.
NReq == 2
\* URL lines in the body of a request that is handled while another is.
MaxOverlapUrls == 1

(***************************************************************************)
(* Program constants.                                                      *)
(***************************************************************************)
\* The counter is a map[string]int32.
MaxInt32 == 2147483647
MinInt32 == (-MaxInt32) - 1

\* The limit MakeResponseSizeCounter builds the middleware with.
defaultRateLimit == 999

StatusOK == 200
StatusBadRequest == 400
StatusMethodNotAllowed == 405
StatusTooManyRequests == 429
StatusInternalServerError == 500

(***************************************************************************)
(* Generic helpers.                                                        *)
(***************************************************************************)
Range(s) == {s[i] : i \in 1..Len(s)}

\* The positions of element c in the sequence s.
IndicesOf(s, c) == {i \in 1..Len(s) : s[i] = c}

SetMax(S) == CHOOSE x \in S : \A y \in S : y <= x

(***************************************************************************)
(* Middleware: peer addresses.  An address is the sequence of the          *)
(* characters of req.RemoteAddr; the model draws it from Addrs.            *)
(***************************************************************************)
Addrs ==
    { <<"a", ":", "8">>,              \* host a, port 8
      <<"b", ":", "8">>,              \* host b, port 8
      <<"a">>,                        \* no port: "missing port in address"
      <<"a", ":", "b", ":", "8">> }   \* "too many colons in address"

\* net.SplitHostPort for addresses without brackets: the host is what
\* precedes the last colon; an address without a colon, or with a colon in
\* the host, is an error.
SplitHostPort(hostport) ==
    LET colons == IndicesOf(hostport, ":")
    IN  IF colons = {}
          THEN [host |-> <<>>, err |-> "missing port in address"]
          ELSE LET i    == SetMax(colons)
                   host == SubSeq(hostport, 1, i - 1)
               IN  IF IndicesOf(host, ":") # {}
                     THEN [host |-> <<>>, err |-> "too many colons in address"]
                     ELSE [host |-> host, err |-> "nil"]

\* requestIP without its error branch: the host of the split, whatever err is.
requestIPIgnoringErr(addr) ==
    [ip |-> SplitHostPort(addr).host, err |-> "nil"]

\* requestIP: the host part of the peer address, or the error of the split.
requestIP(addr) ==
    LET r == SplitHostPort(addr)
    IN  IF r.err # "nil" THEN [ip |-> <<>>, err |-> r.err]
                         ELSE [ip |-> r.host, err |-> "nil"]

\* The keys requests can carry.
Keys == {requestIP(a).ip : a \in {b \in Addrs : requestIP(b).err = "nil"}}

(***************************************************************************)
(* Middleware: state.                                                      *)
(***************************************************************************)
VARIABLES
    limit,      \* RateLimit's limit parameter
    counter,    \* StatHolder.counter: a map from key to int32
    mu,         \* StatHolder.mu: who holds it
    ticker,     \* the ticker goroutine: "wait" or "reset" (inside Reset)
    conn,       \* the requests sent to the middleware
    urls,       \* ResponseSizeCounter.urls
    sizes,      \* ResponseSizeCounter.sizes.s
    sizesMu,    \* ResponseSizeCounter.sizes.mu: who holds it
    hreq,       \* the requests sent to the ResponseSizeCounter
    task        \* the fetch goroutines of each of these requests

mwVars == <<limit, counter, mu, ticker, conn>>

hVars == <<urls, sizes, sizesMu, hreq, task>>

vars == <<limit, counter, mu, ticker, conn, urls, sizes, sizesMu, hreq, task>>

ConnIds == 1..NConn

\* A request of the middleware.  win, prev and rank are history fields: win
\* says that the request's increment was stored since the last reset, prev
\* that it was stored between the last two resets, rank is the position of
\* that increment among the increments of its key in its window.
NewConn ==
    [pc      |-> "idle",
     addr    |-> <<>>,
     reqIP   |-> <<>>,
     tmp     |-> 0,
     current |-> 0,
     status  |-> 0,
     next    |-> FALSE,
     win     |-> FALSE,
     prev    |-> FALSE,
     rank    |-> 0]

\* NewStatHolder: an empty map.
NewStatHolder == << >>

\* Reading the map: a missing key reads as the zero value.
MapGet(m, k) == IF k \in DOMAIN m THEN m[k] ELSE 0

MapPut(m, k, v) == [x \in DOMAIN m \cup {k} |-> IF x = k THEN v ELSE m[x]]

\* A count that stops at two.
Inc32Capped(c) == IF c >= 2 THEN c ELSE c + 1

\* int32 addition of one wraps around.
Inc32(c) == IF c = MaxInt32 THEN MinInt32 ELSE c + 1

\* The holders of a mutex: nobody, the ticker goroutine, a request of the
\* middleware.
Unlocked == <<"free", 0>>
ByTicker == <<"ticker", 0>>
ByConn(r) == <<"conn", r>>

\* A lock that never blocks.
CanLockAlways(m) == TRUE

\* sync.RWMutex.Lock: the lock is taken only when nobody holds it.
CanLock(m) == m = Unlocked

\* One counter for all keys.
CounterKeyShared(id) == <<"a">>

\* The key under which Increment(id) counts.
CounterKey(id) == id

\* A Reset that keeps the counts.
ResetMapKeeping(old) == old

\* The map Reset installs.
ResetMap(old) == NewStatHolder

\* The limit test with one request more let through.
OverLimitLax(lim, current) == lim < current - 1

\* The limit test off by one.
OverLimitInclusive(lim, current) == lim <= current

\* The limit test of the middleware: reject when limit < current.
OverLimit(lim, current) == lim < current

MwInit ==
    /\ limit \in 1..MaxLimit
    /\ counter = NewStatHolder
    /\ mu = Unlocked
    /\ ticker = "wait"
    /\ conn = [r \in ConnIds |-> NewConn]

(***************************************************************************)
(* Middleware: the handler returned by RateLimit.                          *)
(***************************************************************************)
\* A request arrives (requests are numbered in the order of arrival); the
\* handler derives its key, and answers 400 when that fails.
MwServeHTTP(r) ==
    /\ conn[r].pc = "idle"
    /\ \A q \in ConnIds : q < r => conn[q].pc # "idle"
    /\ \E addr \in Addrs :
         LET ip == requestIP(addr)
         IN  conn' = [conn EXCEPT ![r] =
                 IF ip.err # "nil"
                   THEN [@ EXCEPT !.addr = addr, !.status = StatusBadRequest,
                                  !.pc = "done"]
                   ELSE [@ EXCEPT !.addr = addr, !.reqIP = ip.ip,
                                  !.pc = "lock"]]
    /\ UNCHANGED <<limit, counter, mu, ticker>>
    /\ UNCHANGED hVars

\* Increment: sh.mu.Lock()
IncrementLock(r) ==
    /\ conn[r].pc = "lock"
    /\ CanLock(mu)
    /\ mu' = ByConn(r)
    /\ conn' = [conn EXCEPT ![r].pc = "load"]
    /\ UNCHANGED <<limit, counter, ticker>>
    /\ UNCHANGED hVars

\* Increment: sh.counter[id]++, the read
IncrementLoad(r) ==
    /\ conn[r].pc = "load"
    /\ conn' = [conn EXCEPT ![r].tmp = MapGet(counter, CounterKey(conn[r].reqIP)),
                            ![r].pc = "store"]
    /\ UNCHANGED <<limit, counter, mu, ticker>>
    /\ UNCHANGED hVars

\* Increment: sh.counter[id]++, the write
IncrementStore(r) ==
    /\ conn[r].pc = "store"
    /\ counter' = MapPut(counter, CounterKey(conn[r].reqIP), Inc32(conn[r].tmp))
    /\ conn' = [conn EXCEPT
           ![r].win  = TRUE,
           ![r].rank = 1 + Cardinality({q \in ConnIds :
                              conn[q].win /\ conn[q].reqIP = conn[r].reqIP}),
           ![r].pc   = "return"]
    /\ UNCHANGED <<limit, mu, ticker>>
    /\ UNCHANGED hVars

\* Increment: return sh.counter[id], and the deferred sh.mu.Unlock()
IncrementReturn(r) ==
    /\ conn[r].pc = "return"
    /\ conn' = [conn EXCEPT
           ![r].current = MapGet(counter, CounterKey(conn[r].reqIP)),
           ![r].pc = "check"]
    /\ mu' = IF mu = ByConn(r) THEN Unlocked ELSE mu
    /\ UNCHANGED <<limit, counter, ticker>>
    /\ UNCHANGED hVars

\* if limit < current: 429; else next.ServeHTTP(w, req)
MwCheck(r) ==
    /\ conn[r].pc = "check"
    /\ conn' = [conn EXCEPT ![r] =
           IF OverLimit(limit, conn[r].current)
             THEN [@ EXCEPT !.status = StatusTooManyRequests, !.pc = "done"]
             ELSE [@ EXCEPT !.next = TRUE, !.status = StatusOK, !.pc = "done"]]
    /\ UNCHANGED <<limit, counter, mu, ticker>>
    /\ UNCHANGED hVars

(***************************************************************************)
(* Middleware: the ticker goroutine, for range ticker.C { stat.Reset() }.  *)
(***************************************************************************)
\* A tick arrives and Reset takes the lock.
ResetLock ==
    /\ ticker = "wait"
    /\ CanLock(mu)
    /\ mu' = ByTicker
    /\ ticker' = "reset"
    /\ UNCHANGED <<limit, counter, conn>>
    /\ UNCHANGED hVars

\* Reset: sh.counter = make(map[string]int32), and the deferred Unlock.
\* Reset replaces the map.  With remember the history field prev keeps
\* which requests were counted in the window that ends here.
ResetSwapHist(remember) ==
    /\ ticker = "reset"
    /\ counter' = ResetMap(counter)
    /\ conn' = [r \in ConnIds |->
                   [conn[r] EXCEPT !.win = FALSE,
                                   !.prev = remember /\ conn[r].win]]
    /\ mu' = IF mu = ByTicker THEN Unlocked ELSE mu
    /\ ticker' = "wait"
    /\ UNCHANGED <<limit>>
    /\ UNCHANGED hVars

ResetSwap == ResetSwapHist(FALSE)

ResetSwapTwoWindows == ResetSwapHist(TRUE)

MwNext ==
    \/ \E r \in ConnIds : MwServeHTTP(r)
    \/ \E r \in ConnIds : IncrementLock(r)
    \/ \E r \in ConnIds : IncrementLoad(r)
    \/ \E r \in ConnIds : IncrementStore(r)
    \/ \E r \in ConnIds : IncrementReturn(r)
    \/ \E r \in ConnIds : MwCheck(r)
    \/ ResetLock
    \/ ResetSwap

\* The middleware with the history of the last two windows.
MwNextTwoWindows ==
    \/ \E r \in ConnIds : MwServeHTTP(r)
    \/ \E r \in ConnIds : IncrementLock(r)
    \/ \E r \in ConnIds : IncrementLoad(r)
    \/ \E r \in ConnIds : IncrementStore(r)
    \/ \E r \in ConnIds : IncrementReturn(r)
    \/ \E r \in ConnIds : MwCheck(r)
    \/ ResetLock
    \/ ResetSwapTwoWindows


(***************************************************************************)
(* Handler: text.  A text (a request body, a line, a response body) is the *)
(* sequence of its tokens: "\n" is the newline, a digit is a character of  *)
(* a rendered size, and the other tokens are the parts of a URL.           *)
(***************************************************************************)
NL == "\n"

RECURSIVE SplitAt(_, _)
\* The pieces of the text s between the occurrences of sep.
SplitAt(s, sep) ==
    LET at == IndicesOf(s, sep)
    IN  IF at = {} THEN <<s>>
        ELSE LET i == CHOOSE x \in at : \A y \in at : x <= y
             IN  <<SubSeq(s, 1, i - 1)>> \o SplitAt(SubSeq(s, i + 1, Len(s)), sep)

\* splitToLines: the lines of the input, the empty ones left out.  (A
\* Scanner yields no token for the empty rest after the last newline.)
splitToLines(input) == SelectSeq(SplitAt(input, NL), LAMBDA l : l # <<>>)

\* url.Parse on the lines of the model: scheme "://" host, a line without
\* "://" is a path, and a line starting with a bad escape is an error.
UrlParse(str) ==
    IF Len(str) >= 2 /\ str[2] = "://"
      THEN [Scheme |-> str[1],
            Host   |-> IF Len(str) >= 3 THEN str[3] ELSE "",
            err    |-> "nil"]
      ELSE IF Len(str) >= 1 /\ str[1] = "%zz"
        THEN [Scheme |-> "", Host |-> "", err |-> "invalid URL escape"]
        ELSE [Scheme |-> "", Host |-> "", err |-> "nil"]

\* Every line counts as a URL.
isUrlAlways(str) == TRUE

\* isUrl: the line parses and has a scheme and a host.
isUrl(str) ==
    LET u == UrlParse(str)
    IN  u.err = "nil" /\ u.Scheme # "" /\ u.Host # ""

Digits == <<"0", "1", "2", "3", "4", "5", "6", "7", "8", "9">>

RECURSIVE Itoa(_)
\* strconv.Itoa of a number that is not negative.
Itoa(n) ==
    IF n < 10 THEN <<Digits[n + 1]>>
    ELSE Itoa(n \div 10) \o <<Digits[(n % 10) + 1]>>

\* resSizes.String: the sizes in decimal, a newline between two of them.
String(s) ==
    LET F[i \in 0..Len(s)] ==
            IF i = 0 THEN <<>>
            ELSE F[i - 1] \o Itoa(s[i])
                   \o (IF Len(s) - (i - 1) > 1 THEN <<NL>> ELSE <<>>)
    IN  F[Len(s)]

(***************************************************************************)
(* Handler: the requests and the client of the model.                      *)
(***************************************************************************)
U1 == <<"https", "://", "test-1.com">>
U2 == <<"http", "://", "test-2.com">>
NotUrl == <<"test-3.abc">>

\* The requests of the model: method, body, and whether reading the body
\* fails.
Requests ==
    { [Method |-> "POST", Body |-> U1, readErr |-> FALSE],
      [Method |-> "POST", Body |-> U2 \o <<NL>>, readErr |-> FALSE],
      [Method |-> "POST", Body |-> U2 \o <<NL, NL>> \o U1 \o <<NL>>,
       readErr |-> FALSE],
      [Method |-> "POST", Body |-> U2 \o <<NL>> \o NotUrl, readErr |-> FALSE],
      [Method |-> "POST", Body |-> <<>>, readErr |-> FALSE],
      [Method |-> "POST", Body |-> U1, readErr |-> TRUE],
      [Method |-> "GET", Body |-> U1 \o <<NL>> \o U2, readErr |-> FALSE] }

\* The lines of a body that are URLs.
UrlLines(body) == SelectSeq(splitToLines(body), isUrl)

\* The requests sent while another request is handled.
OverlapRequests == {req \in Requests : Len(UrlLines(req.Body)) <= MaxOverlapUrls}

\* The client: the length of the body it serves for a URL.
BodyLen(url) ==
    IF UrlParse(url).Host = "test-1.com" THEN 25000
    ELSE IF UrlParse(url).Host = "test-2.com" THEN 7
    ELSE 0

\* What a GET can do: succeed, fail, or fail while the body is read.
Outcomes == {"ok", "get failed", "read failed"}

\* doGet: the length of the body and nil; 0 and the error of Get; or the
\* length of what was read and the error of ReadAll.
doGet(url, outcome) ==
    IF outcome = "get failed"
      THEN [size |-> 0, err |-> "GET"]
      ELSE IF outcome = "read failed"
        THEN [size |-> BodyLen(url) \div 2, err |-> "read response body"]
        ELSE [size |-> BodyLen(url), err |-> "nil"]

(***************************************************************************)
(* Handler: state.                                                         *)
(***************************************************************************)
ReqIds == 1..NReq

\* Nobody holds the mutex of the sizes; fetch goroutine i of request r does.
NoTask == <<"free", 0, 0>>
ByTask(r, i) == <<"task", r, i>>

\* The sizes mutex never blocks.
CanLockSizesAlways(m) == TRUE

\* sync.Mutex.Lock on the sizes.
CanLockSizes(m) == m = NoTask

\* wg.Wait returns at once.
WaitDoneAlways(n) == TRUE

\* A collector that is not emptied.
MakeSizesKeeping(old) == old

\* getRespSizes: h.sizes.s = make([]int, 0)
MakeSizes(old) == << >>

\* A goroutine that records the size of a successful fetch only.
AddsSizeOnSuccess(err) == err = "nil"

\* The goroutine of getRespSizes: h.sizes.Add(size) follows the test of
\* err, outside of it, and is called whatever doGet returned.
AddsSize(err) == TRUE

\* An error variable captured by the goroutines.
ReturnedErrCaptured(err, got, first) == IF first THEN got ELSE err

\* The goroutine of getRespSizes takes err as its parameter single, a copy:
\* errOnce.Do assigns the copy, and the err that getRespSizes returns
\* keeps the value it had before the loop.
ReturnedErr(err, got, first) == err

\* wg.Wait returns when the counter of the WaitGroup is zero.
WaitDone(n) == n = 0

\* A request of the handler: its input, its position, the locals of
\* getUrls (lines, idx) and of getRespSizes (wg, errOnce, err), and the
\* response (status, resp).  bodyRead is a history field.
NewReq ==
    [pc       |-> "idle",
     Method   |-> "",
     Body     |-> <<>>,
     readErr  |-> FALSE,
     bodyRead |-> FALSE,
     lines    |-> <<>>,
     idx      |-> 0,
     wg       |-> 0,
     errOnce  |-> FALSE,
     err      |-> "nil",
     status   |-> 0,
     resp     |-> <<>>]

\* A fetch goroutine: the url it captured, the parameter single, and the
\* locals size and err; tmp is the slice Add read.  (tmp and single are
\* dead when the goroutine ends, and are cleared then.)
NewTask(url) ==
    [pc     |-> "get",
     url    |-> url,
     single |-> "nil",
     size   |-> 0,
     err    |-> "nil",
     tmp    |-> <<>>]

\* &ResponseSizeCounter{client: ..., sizes: resSizes{}}
HInit ==
    /\ urls = <<>>
    /\ sizes = <<>>
    /\ sizesMu = NoTask
    /\ hreq = [r \in ReqIds |-> NewReq]
    /\ task = [r \in ReqIds |-> <<>>]

\* http.Error(w, msg, code)
HttpError(rec, msg, code) ==
    [rec EXCEPT !.status = code, !.resp = <<msg, NL>>, !.pc = "done"]

(***************************************************************************)
(* Handler: ServeHTTP, serve, getUrls.                                     *)
(***************************************************************************)
\* Every method is served.
IsPostAlways(method) == TRUE

\* req.Method == http.MethodPost
IsPost(method) == method = "POST"

\* A request of the set reqs arrives (requests are numbered in the order of
\* arrival).  ServeHTTP: anything but a POST is answered 405.
ServeHTTP(r, reqs) ==
    /\ hreq[r].pc = "idle"
    /\ \A q \in ReqIds : q < r => hreq[q].pc # "idle"
    /\ \E req \in reqs :
         LET rec == [hreq[r] EXCEPT !.Method = req.Method, !.Body = req.Body,
                                    !.readErr = req.readErr]
         IN  hreq' = [hreq EXCEPT ![r] =
                 IF IsPost(req.Method)
                   THEN [rec EXCEPT !.pc = "getUrls"]
                   ELSE HttpError(rec, "Only POST method supported.",
                                  StatusMethodNotAllowed)]
    /\ UNCHANGED <<urls, sizes, sizesMu, task>>
    /\ UNCHANGED mwVars

\* getUrls: io.ReadAll, splitToLines, h.urls = make([]string, 0).
GetUrlsRead(r) ==
    /\ hreq[r].pc = "getUrls"
    /\ IF hreq[r].readErr
         THEN /\ hreq' = [hreq EXCEPT ![r] =
                    HttpError([@ EXCEPT !.bodyRead = TRUE],
                              "get urls: read request body",
                              StatusInternalServerError)]
              /\ UNCHANGED urls
         ELSE LET lines == splitToLines(hreq[r].Body)
              IN  /\ hreq' = [hreq EXCEPT ![r].bodyRead = TRUE,
                                          ![r].lines = lines,
                                          ![r].idx = 1,
                                          ![r].pc = IF lines = <<>>
                                                      THEN "getRespSizes"
                                                      ELSE "line"]
                  /\ urls' = <<>>
    /\ UNCHANGED <<sizes, sizesMu, task>>
    /\ UNCHANGED mwVars

\* getUrls: one round of the loop over the lines: append the line to
\* h.urls, or return the error that it is not a URL.
GetUrlsLine(r) ==
    /\ hreq[r].pc = "line"
    /\ LET line == hreq[r].lines[hreq[r].idx]
       IN  IF isUrl(line)
             THEN /\ urls' = Append(urls, line)
                  /\ hreq' = [hreq EXCEPT
                         ![r].idx = @ + 1,
                         ![r].pc = IF hreq[r].idx = Len(hreq[r].lines)
                                     THEN "getRespSizes" ELSE "line"]
             ELSE /\ hreq' = [hreq EXCEPT ![r] =
                        HttpError(@, "get urls: not a URL",
                                  StatusInternalServerError)]
                  /\ UNCHANGED urls
    /\ UNCHANGED <<sizes, sizesMu, task>>
    /\ UNCHANGED mwVars

(***************************************************************************)
(* Handler: getRespSizes and its goroutines.                               *)
(***************************************************************************)
\* h.urls and h.sizes.s are fields of the one ResponseSizeCounter that
\* serves every request.  getUrls and getRespSizes write and read them with
\* no lock (only Add takes rs.mu), so these accesses of requests handled
\* at the same time interleave statement by statement.

\* getRespSizes: h.sizes.s = make([]int, 0)
GetRespSizesMake(r) ==
    /\ hreq[r].pc = "getRespSizes"
    /\ sizes' = MakeSizes(sizes)
    /\ hreq' = [hreq EXCEPT ![r].pc = "range"]
    /\ UNCHANGED <<urls, sizesMu, task>>
    /\ UNCHANGED mwVars

\* getRespSizes: the loop over h.urls (the slice is read once, when the
\* loop starts): wg.Add(1) and one goroutine per url.
GetRespSizesGo(r) ==
    /\ hreq[r].pc = "range"
    /\ task' = [task EXCEPT ![r] = [i \in 1..Len(urls) |-> NewTask(urls[i])]]
    /\ hreq' = [hreq EXCEPT ![r].wg = Len(urls), ![r].pc = "wait"]
    /\ UNCHANGED <<urls, sizes, sizesMu>>
    /\ UNCHANGED mwVars

\* The goroutine: size, err := h.doGet(url); on an error errOnce.Do sets
\* single, the goroutine's own copy of err.
TaskGet(r, i) ==
    /\ i \in DOMAIN task[r]
    /\ task[r][i].pc = "get"
    /\ \E outcome \in Outcomes :
         LET got   == doGet(task[r][i].url, outcome)
             first == got.err # "nil" /\ ~hreq[r].errOnce
         IN  /\ task' = [task EXCEPT ![r][i] =
                    [@ EXCEPT !.size = got.size, !.err = got.err,
                              !.single = IF first THEN got.err ELSE @,
                              !.pc = IF AddsSize(got.err) THEN "add" ELSE "done"]]
             /\ hreq' = [hreq EXCEPT
                    ![r].errOnce = @ \/ got.err # "nil",
                    ![r].err = ReturnedErr(@, got.err, first),
                    ![r].wg = IF AddsSize(got.err) THEN @ ELSE @ - 1]
    /\ UNCHANGED <<urls, sizes, sizesMu>>
    /\ UNCHANGED mwVars

\* doGet: h.client.Get(url) blocks and never returns (the client has no
\* timeout of its own); the goroutine stays in it.
TaskHang(r, i) ==
    /\ i \in DOMAIN task[r]
    /\ task[r][i].pc = "get"
    /\ task' = [task EXCEPT ![r][i].pc = "hung"]
    /\ UNCHANGED <<urls, sizes, sizesMu, hreq>>
    /\ UNCHANGED mwVars

\* Add: rs.mu.Lock(), and of rs.s = append(rs.s, i) the read of rs.s
AddLock(r, i) ==
    /\ i \in DOMAIN task[r]
    /\ task[r][i].pc = "add"
    /\ CanLockSizes(sizesMu)
    /\ sizesMu' = ByTask(r, i)
    /\ task' = [task EXCEPT ![r][i].tmp = sizes, ![r][i].pc = "store"]
    /\ UNCHANGED <<urls, sizes, hreq>>
    /\ UNCHANGED mwVars

\* Add: rs.s = append(rs.s, i), the write of rs.s; the deferred Unlock;
\* and the goroutine's deferred wg.Done().
AddStore(r, i) ==
    /\ i \in DOMAIN task[r]
    /\ task[r][i].pc = "store"
    /\ sizes' = Append(task[r][i].tmp, task[r][i].size)
    /\ sizesMu' = IF sizesMu = ByTask(r, i) THEN NoTask ELSE sizesMu
    /\ task' = [task EXCEPT ![r][i].tmp = <<>>, ![r][i].single = "nil",
                             ![r][i].pc = "done"]
    /\ hreq' = [hreq EXCEPT ![r].wg = @ - 1]
    /\ UNCHANGED urls
    /\ UNCHANGED mwVars

\* getRespSizes: wg.Wait() and return err; serve: a 500 when err is not
\* nil, else w.Write([]byte(h.sizes.String())).
WaitAndWrite(r) ==
    /\ hreq[r].pc = "wait"
    /\ WaitDone(hreq[r].wg)
    /\ hreq' = [hreq EXCEPT ![r] =
           IF hreq[r].err # "nil"
             THEN HttpError(@, "get sizes of responses", StatusInternalServerError)
             ELSE [@ EXCEPT !.status = StatusOK, !.resp = String(sizes),
                            !.pc = "done"]]
    /\ UNCHANGED <<urls, sizes, sizesMu, task>>
    /\ UNCHANGED mwVars

\* The steps of request r after its arrival.
HandlerStep(r) ==
    \/ GetUrlsRead(r)
    \/ GetUrlsLine(r)
    \/ GetRespSizesMake(r)
    \/ GetRespSizesGo(r)
    \/ \E i \in DOMAIN task[r] : TaskGet(r, i)
    \/ \E i \in DOMAIN task[r] : TaskHang(r, i)
    \/ \E i \in DOMAIN task[r] : AddLock(r, i)
    \/ \E i \in DOMAIN task[r] : AddStore(r, i)
    \/ WaitAndWrite(r)

\* Requests handled at the same time by one ResponseSizeCounter.
HNext ==
    \/ \E r \in ReqIds : ServeHTTP(r, OverlapRequests)
    \/ \E r \in ReqIds : HandlerStep(r)

\* A request arrives when the requests before it are answered.
ServeHTTPInTurn(r) ==
    /\ \A q \in ReqIds : hreq[q].pc \in {"idle", "done"}
    /\ ServeHTTP(r, Requests)

\* Requests handled one after another.
HNextInTurn ==
    \/ \E r \in ReqIds : ServeHTTPInTurn(r)
    \/ \E r \in ReqIds : HandlerStep(r)

(***************************************************************************)
(* Specifications.                                                         *)
(***************************************************************************)
\* The middleware in front of a downstream handler, built with any limit.
Init == MwInit /\ HInit

SpecLimiter == Init /\ [][MwNext]_vars

SpecTwoWindows == Init /\ [][MwNextTwoWindows]_vars

\* The store of a window in which key "a" was already incremented
\* MaxInt32 - 1 times.
InitLongWindow ==
    /\ limit \in 1..MaxLimit
    /\ counter \in {(k :> (MaxInt32 - 1)) : k \in Keys}
    /\ mu = Unlocked
    /\ ticker = "wait"
    /\ conn = [r \in ConnIds |-> NewConn]
    /\ HInit

SpecLongWindow == InitLongWindow /\ [][MwNext]_vars


\* A ResponseSizeCounter as MakeResponseSizeCounter builds it.
InitHandler ==
    /\ limit = defaultRateLimit
    /\ counter = NewStatHolder
    /\ mu = Unlocked
    /\ ticker = "wait"
    /\ conn = [r \in ConnIds |-> NewConn]
    /\ HInit

SpecHandler == InitHandler /\ [][HNext]_vars

SpecInTurn == InitHandler /\ [][HNextInTurn]_vars

(***************************************************************************)
(* Fairness of the middleware: the Go scheduler runs every runnable        *)
(* goroutine, and the ticker keeps ticking.                                *)
(***************************************************************************)
MwFairness ==
    /\ WF_vars(ResetLock \/ ResetSwap)
    /\ WF_vars(\E r \in ConnIds :
                 IncrementLock(r) \/ IncrementLoad(r) \/ IncrementStore(r)
                   \/ IncrementReturn(r) \/ MwCheck(r))

FairLimiter == SpecLimiter /\ MwFairness

\* The Go scheduler runs every goroutine that can run: a step of the
\* handler or of one of its goroutines that stays possible is taken.  A
\* fetch that hangs has no step left to take.
HandlerFairness == WF_vars(\E r \in ReqIds : HandlerStep(r))

FairInTurn == SpecInTurn /\ HandlerFairness

(***************************************************************************)
(* Properties of the middleware.                                           *)
(***************************************************************************)
\* The requests of key k whose increment was stored since the last reset.
Stored(k) ==
    {r \in ConnIds : conn[r].win /\ conn[r].reqIP = k
                       /\ conn[r].pc \in {"return", "check", "done"}}

\* Those of them whose Increment has returned.
Returned(k) == {r \in Stored(k) : conn[r].pc \in {"check", "done"}}

\* The requests the middleware has answered after counting them.
Decided == {r \in ConnIds : conn[r].pc = "done" /\ conn[r].rank > 0}

Rejected(r) == conn[r].status = StatusTooManyRequests /\ ~conn[r].next

Delegated(r) == conn[r].next /\ conn[r].status # StatusTooManyRequests

Malformed(addr) == SplitHostPort(addr).err # "nil"

\* C1: between two resets the first limit requests of a key (in the order
\* of their increments) are delegated to the downstream handler, and every
\* further request of that key is answered 429 and not delegated.
C1_WindowLimit ==
    \A r \in Decided :
        IF conn[r].rank <= limit THEN Delegated(r) ELSE Rejected(r)

\* C1 witness: in one window, the limit-th request of a key was delegated
\* and the next one was answered 429.
C1_Witness ==
    \E r, q \in Decided :
        /\ conn[r].win /\ conn[q].win
        /\ conn[r].reqIP = conn[q].reqIP
        /\ conn[q].rank = limit /\ Delegated(q)
        /\ conn[r].rank = limit + 1 /\ Rejected(r)

\* The next Increment of key k returns a count within the limit.
Admits(k) == ~OverLimit(limit, Inc32(MapGet(counter, k)))

\* C2: a key is not limited forever: whenever the store would answer 429
\* to a request of key k (as it does once a request of k was answered 429),
\* the reset comes and the store admits k again; and the first request of
\* a key after a reset is delegated.
C2_NotLimitedForever ==
    /\ \A k \in Keys : (~Admits(k)) ~> Admits(k)
    /\ [](\A r \in Decided :
            /\ Rejected(r) /\ conn[r].win => ~Admits(conn[r].reqIP)
            /\ conn[r].rank = 1 => Delegated(r))

\* C2 witness: a request was answered 429, and after the reset a request of
\* the same key was delegated.
C2_Witness ==
    \E r, q \in Decided :
        /\ Rejected(r) /\ ~conn[r].win
        /\ conn[q].reqIP = conn[r].reqIP
        /\ conn[q].win /\ conn[q].rank = 1 /\ Delegated(q)

\* C3: no increment is lost: with n increments of a key stored since the
\* last reset the stored count is n, and the values the returned calls got
\* are exactly 1..(number of returned calls), each once.
C3_NoLostIncrement ==
    \A k \in Keys :
        /\ MapGet(counter, k) = Cardinality(Stored(k))
        /\ {conn[r].current : r \in Returned(k)} = 1..Cardinality(Returned(k))

\* C3 witness: three callers of one key at once: one has returned, one is
\* inside Increment, one waits for the lock.
C3_Witness ==
    \E k \in Keys : \E p, q, r \in ConnIds :
        /\ p \in Returned(k)
        /\ q \in Stored(k) /\ conn[q].pc = "return" /\ conn[q].rank = 2
        /\ conn[r].pc = "lock" /\ conn[r].reqIP = k

\* C4: keys are independent: a step of a request of key a leaves the count
\* of every other key as it is, and the count a request gets back is the
\* number of requests of its own key since the last reset.
C4_KeysIndependent ==
    /\ [][\A r \in ConnIds :
            (conn'[r] # conn[r] /\ ticker' = ticker) =>
                \A k \in Keys \ {conn'[r].reqIP} :
                    /\ MapGet(counter', k) = MapGet(counter, k)
                    /\ (k \in DOMAIN counter') = (k \in DOMAIN counter)]_vars
    /\ [](\A r \in ConnIds :
            conn[r].pc \in {"check", "done"} /\ conn[r].rank > 0 =>
                conn[r].current = conn[r].rank)

\* C4 witness: in one window a request of one key is answered 429 and a
\* request of another key is delegated.
C4_Witness ==
    \E r, q \in Decided :
        /\ conn[r].win /\ conn[q].win
        /\ conn[r].reqIP # conn[q].reqIP
        /\ Rejected(r) /\ Delegated(q)
        /\ MapGet(counter, conn[q].reqIP) = 1

\* C5: a request whose peer address does not split into host and port is
\* answered 400 whatever the counter store holds: it is not answered 429,
\* it is not counted and it is not delegated.
C5_MalformedAddress ==
    /\ [](\A r \in ConnIds :
            conn[r].pc # "idle" /\ Malformed(conn[r].addr) =>
                /\ conn[r].pc = "done"
                /\ conn[r].status = StatusBadRequest
                /\ ~conn[r].next
                /\ ~conn[r].win /\ conn[r].rank = 0)
    /\ [][\A r \in ConnIds :
            (conn[r].pc = "idle" /\ conn'[r].pc # "idle"
               /\ Malformed(conn'[r].addr)) =>
                (counter' = counter /\ mu' = mu)]_vars

\* C5 witness: a malformed request was answered 400 while the key of the
\* same host was over the limit.
C5_Witness ==
    \E r \in ConnIds :
        /\ conn[r].pc = "done" /\ Malformed(conn[r].addr)
        /\ conn[r].status = StatusBadRequest
        /\ MapGet(counter, <<"a">>) > limit

(***************************************************************************)
(* Properties of the handler.                                              *)
(***************************************************************************)
RECURSIVE Atoi(_)
\* The number a sequence of digits denotes.
Atoi(str) ==
    IF str = <<>> THEN 0
    ELSE 10 * Atoi(SubSeq(str, 1, Len(str) - 1))
           + ((CHOOSE d \in 1..10 : Digits[d] = str[Len(str)]) - 1)

\* The elements of a sequence with their multiplicities.
BagOf(s) == [x \in Range(s) |-> Cardinality(IndicesOf(s, x))]

\* The sizes a client reads off a response body: one number per line.
RespSizes(resp) ==
    LET ls == splitToLines(resp) IN [i \in 1..Len(ls) |-> Atoi(ls[i])]

\* The line is not an absolute URL: it does not parse, or lacks a scheme
\* or a host.
InvalidLine(l) ==
    LET u == UrlParse(l) IN u.err # "nil" \/ u.Scheme = "" \/ u.Host = ""

\* The lines of a request that are not empty.
BodyLines(r) == SplitAt(hreq[r].Body, NL)

NonEmptyLines(r) == SelectSeq(BodyLines(r), LAMBDA l : l # <<>>)

Arrived(r) == hreq[r].pc # "idle"

Answered(r) == hreq[r].pc = "done"

\* A POST whose body was read and holds only URL lines.
ValidPost(r) ==
    /\ Arrived(r)
    /\ hreq[r].Method = "POST"
    /\ ~hreq[r].readErr
    /\ \A l \in Range(NonEmptyLines(r)) : ~InvalidLine(l)

\* A POST whose body was read and holds a line that is not a URL.
InvalidPost(r) ==
    /\ Arrived(r)
    /\ hreq[r].Method = "POST"
    /\ ~hreq[r].readErr
    /\ \E l \in Range(NonEmptyLines(r)) : InvalidLine(l)

\* The sizes the fetches of request r got.
TaskSizes(r) == [i \in 1..Len(task[r]) |-> task[r][i].size]

\* The sizes the client serves for the URL lines of request r.
ServedSizes(r) ==
    LET ls == NonEmptyLines(r) IN [i \in 1..Len(ls) |-> BodyLen(ls[i])]

AllFetched(r) == \A i \in DOMAIN task[r] : task[r][i].err = "nil"

\* C6: a request with K URL lines whose fetches all succeed is answered
\* 200, and the lines of the response are, as a multiset, the K sizes the
\* client served, whatever the order in which the fetches ended.
C6_FanOut ==
    \A r \in ReqIds :
        (ValidPost(r) /\ Answered(r) /\ AllFetched(r)) =>
            /\ hreq[r].status = StatusOK
            /\ Len(RespSizes(hreq[r].resp)) = Len(NonEmptyLines(r))
            /\ BagOf(RespSizes(hreq[r].resp)) = BagOf(ServedSizes(r))

\* C6 witness: a request with two URLs, answered with the two sizes in the
\* order opposite to that of the URLs.
C6_Witness ==
    \E r \in ReqIds :
        /\ ValidPost(r) /\ Answered(r) /\ AllFetched(r)
        /\ Len(NonEmptyLines(r)) = 2
        /\ RespSizes(hreq[r].resp)
             = <<BodyLen(NonEmptyLines(r)[2]), BodyLen(NonEmptyLines(r)[1])>>
        /\ BodyLen(NonEmptyLines(r)[1]) # BodyLen(NonEmptyLines(r)[2])

\* C7: a POST with a line that is not a URL starts no fetch, also not for
\* the URL lines before that line, and is answered 500 with no size in the
\* response.
C7_InvalidLine ==
    \A r \in ReqIds :
        InvalidPost(r) =>
            /\ task[r] = <<>>
            /\ hreq[r].wg = 0
            /\ hreq[r].pc \in {"getUrls", "line", "done"}
            /\ Answered(r) =>
                 /\ hreq[r].status = StatusInternalServerError
                 /\ Range(hreq[r].resp) \cap Range(Digits) = {}

\* C7 witness: the request was answered 500 after the URL line before the
\* invalid line was put in the URL list.
C7_Witness ==
    \E r \in ReqIds :
        /\ InvalidPost(r) /\ Answered(r)
        /\ hreq[r].status = StatusInternalServerError
        /\ urls # <<>>
        /\ ~InvalidLine(NonEmptyLines(r)[1])

\* C8: a request with another method than POST is answered 405: its body
\* is not read, no fetch is started, and the URL list and the sizes of the
\* handler stay as they are.
C8_WrongMethod ==
    /\ [](\A r \in ReqIds :
            (Arrived(r) /\ hreq[r].Method # "POST") =>
                /\ Answered(r)
                /\ hreq[r].status = StatusMethodNotAllowed
                /\ ~hreq[r].bodyRead
                /\ task[r] = <<>>)
    /\ [][\A r \in ReqIds :
            (~Arrived(r) /\ Arrived(r)' /\ hreq'[r].Method # "POST") =>
                (urls' = urls /\ sizes' = sizes /\ sizesMu' = sizesMu
                   /\ task' = task)]_vars

\* C8 witness: a GET with a body of URLs was answered 405 by a handler
\* whose URL list and sizes are those of the request before.
C8_Witness ==
    \E r \in ReqIds :
        /\ Answered(r) /\ hreq[r].Method = "GET"
        /\ hreq[r].status = StatusMethodNotAllowed
        /\ UrlLines(hreq[r].Body) # <<>>
        /\ urls # <<>> /\ sizes # <<>>

\* C9: the response of a request is rendered and written only when every
\* fetch started for it has finished, its append done; no fetch of the
\* request runs after that.
C9_JoinBarrier ==
    /\ [](\A r \in ReqIds :
            Answered(r) => \A i \in DOMAIN task[r] : task[r][i].pc = "done")
    /\ [][\A r \in ReqIds :
            Answered(r) => (task'[r] = task[r] /\ hreq'[r] = hreq[r])]_vars

\* C9 witness: a request with two fetches was answered after both ended.
C9_Witness ==
    \E r \in ReqIds :
        /\ Answered(r) /\ hreq[r].status = StatusOK
        /\ Len(task[r]) = 2
        /\ Len(RespSizes(hreq[r].resp)) = 2

\* C10: the sizes are those of one request: the response of a request holds
\* the sizes its own fetches got, one line per fetch, and no size of a
\* fetch of another request.
C10_CollectorPerRequest ==
    \A r \in ReqIds :
        (Answered(r) /\ hreq[r].status = StatusOK) =>
            BagOf(RespSizes(hreq[r].resp)) = BagOf(TaskSizes(r))

\* The URL lines of the body of request r, in the order of the body.
OwnUrls(r) == NonEmptyLines(r)

\* The URLs the fetches of request r were started for.
TaskUrls(r) == [i \in 1..Len(task[r]) |-> task[r][i].url]

\* The fetches of request r that returned an error.
Failed(r) == {i \in DOMAIN task[r] : task[r][i].err # "nil"}

\* Request r has started its fetches and each of them has ended.
FetchesEnded(r) ==
    /\ hreq[r].pc \in {"wait", "done"}
    /\ \A i \in DOMAIN task[r] : task[r][i].pc = "done"

\* No request has arrived after request r.
Latest(r) == \A q \in ReqIds : q > r => ~Arrived(q)

\* C11: the URL list belongs to one request: every fetch started for a
\* request is a fetch of a URL line of that request's own body, also when
\* the same handler serves another request at the same time.
C11_UrlsOfOwnBody ==
    \A r \in ReqIds : \A i \in DOMAIN task[r] :
        task[r][i].url \in Range(OwnUrls(r))

\* C12: a request handled alone, with N URL lines, all valid: when its N
\* fetches have ended the collector holds N entries, one per fetch,
\* whichever of them failed and in whatever order they ended.
C12_OneEntryPerUrl ==
    \A r \in ReqIds :
        (ValidPost(r) /\ FetchesEnded(r) /\ Latest(r)) =>
            /\ Len(task[r]) = Len(OwnUrls(r))
            /\ Len(sizes) = Len(OwnUrls(r))
            /\ BagOf(sizes) = BagOf(TaskSizes(r))

\* C12 witness: a request with two URLs whose fetches have ended, the first
\* with an error and the second without, the second having ended first.
C12_Witness ==
    \E r \in ReqIds :
        /\ ValidPost(r) /\ FetchesEnded(r) /\ Latest(r)
        /\ Len(OwnUrls(r)) = 2
        /\ task[r][1].err # "nil" /\ task[r][2].err = "nil"
        /\ sizes = <<task[r][2].size, task[r][1].size>>

\* C13 as the specification states it: a fetch that failed adds no entry,
\* so that with F failed fetches among N the response has N - F lines.
C13_OnlySuccessesRecorded ==
    \A r \in ReqIds :
        (ValidPost(r) /\ Answered(r)) =>
            Len(RespSizes(hreq[r].resp))
                = Len(OwnUrls(r)) - Cardinality(Failed(r))

\* C13, amended: a fetch that failed adds an entry as one that succeeded
\* does, namely the size doGet returned with the error (0 when the GET
\* failed, the number of bytes read when reading the body failed): with F
\* failed fetches among N the response has N lines, F of them for the
\* failed fetches.
C13_FailuresRecorded ==
    \A r \in ReqIds :
        (ValidPost(r) /\ Answered(r)) =>
            /\ Len(RespSizes(hreq[r].resp)) = Len(OwnUrls(r))
            /\ BagOf(RespSizes(hreq[r].resp)) = BagOf(TaskSizes(r))
            /\ \A i \in Failed(r) :
                   /\ task[r][i].size \in Range(RespSizes(hreq[r].resp))
                   /\ task[r][i].size < BodyLen(task[r][i].url)

\* C13 witness: a request with two URLs, the GET of the first failed: the
\* response has two lines, the line 0 and the size of the second.
C13_Witness ==
    \E r \in ReqIds :
        /\ ValidPost(r) /\ Answered(r)
        /\ Len(OwnUrls(r)) = 2
        /\ Failed(r) = {1}
        /\ task[r][1].size = 0
        /\ BagOf(RespSizes(hreq[r].resp))
             = BagOf(<<0, BodyLen(OwnUrls(r)[2])>>)

\* C14: a fetch that failed is not reported and stops no other fetch: for
\* a POST with valid URLs only, one fetch is started for each URL line,
\* the error of getRespSizes stays nil whichever fetches fail, every fetch
\* has ended when the request is answered, and the answer is the rendered
\* collector with status 200.
C14_FailureNotSurfaced ==
    \A r \in ReqIds :
        /\ (ValidPost(r) /\ hreq[r].pc \in {"wait", "done"}) =>
              /\ TaskUrls(r) = OwnUrls(r)
              /\ hreq[r].err = "nil"
        /\ (ValidPost(r) /\ Answered(r)) =>
              /\ hreq[r].status = StatusOK
              /\ \A i \in DOMAIN task[r] : task[r][i].pc = "done"
              /\ Len(RespSizes(hreq[r].resp)) = Len(OwnUrls(r))

\* C14 witness: a request with two URLs whose fetches both failed, in two
\* ways, answered 200.
C14_Witness ==
    \E r \in ReqIds :
        /\ ValidPost(r) /\ Answered(r)
        /\ Len(OwnUrls(r)) = 2
        /\ Failed(r) = {1, 2}
        /\ task[r][1].err # task[r][2].err
        /\ hreq[r].status = StatusOK

\* The store is inside a call of Increment: between its Lock and its
\* Unlock.
InIncrement(r) == conn[r].pc \in {"load", "store", "return"}

\* C15: Reset and Increment exclude each other.  Reset never runs inside
\* a call of Increment; an Increment of key k returns the count it found
\* plus one; with no reset after it the store holds at least that count
\* for k; the first Increment after a reset returns 1; and a key with no
\* Increment since the last reset has no count.
C15_ResetIncrementAtomic ==
    /\ ~(ticker = "reset" /\ \E r \in ConnIds : InIncrement(r))
    /\ \A r \in ConnIds :
          (conn[r].pc \in {"check", "done"} /\ conn[r].rank > 0) =>
              /\ conn[r].current = Inc32(conn[r].tmp)
              /\ conn[r].win =>
                    /\ conn[r].reqIP \in DOMAIN counter
                    /\ counter[conn[r].reqIP] >= conn[r].current
              /\ conn[r].rank = 1 => conn[r].current = 1
    /\ \A k \in Keys : Stored(k) = {} => k \notin DOMAIN counter

\* C15 witness: both outcomes of the race, for one key: a call that found
\* the count 1 and returned 2 before the reset, and a call that returned 1
\* after it, the store holding 1.
C15_Witness ==
    \E r, q \in ConnIds :
        /\ conn[r].reqIP = conn[q].reqIP
        /\ conn[r].pc \in {"check", "done"} /\ conn[q].pc \in {"check", "done"}
        /\ ~conn[r].win /\ conn[r].tmp = 1 /\ conn[r].current = 2
        /\ conn[q].win /\ conn[q].current = 1
        /\ MapGet(counter, conn[q].reqIP) = 1

\* The requests of key k counted in the last two windows (the span with
\* the last reset in it) and delegated.
DelegatedBefore(k) ==
    {r \in ConnIds : conn[r].reqIP = k /\ conn[r].prev /\ Delegated(r)}

DelegatedAfter(k) ==
    {r \in ConnIds : conn[r].reqIP = k /\ conn[r].win /\ Delegated(r)}

\* C16: over a span with one reset in it, at most 2 * limit requests of a
\* key are delegated (a request belongs to the span in which it is
\* counted).
C16_BurstBound ==
    \A k \in Keys :
        Cardinality(DelegatedBefore(k) \cup DelegatedAfter(k)) <= 2 * limit

\* C16 witness: limit requests of a key delegated before the reset and
\* limit after it, 2 * limit in all, and a further one answered 429.
C16_Witness ==
    \E k \in Keys :
        /\ Cardinality(DelegatedBefore(k)) = limit
        /\ Cardinality(DelegatedAfter(k)) = limit
        /\ \E r \in Decided : conn[r].reqIP = k /\ Rejected(r)

\* A fetch of request r never returns.
Hangs(r) == \E i \in DOMAIN task[r] : task[r][i].pc = "hung"

\* C17: a request is answered when each of its fetches returns, and is
\* never answered when one of its fetches never returns, however the
\* others end.
C17_AnsweredIffFetchesReturn ==
    /\ \A r \in ReqIds : Arrived(r) ~> (Answered(r) \/ Hangs(r))
    /\ [](\A r \in ReqIds : Hangs(r) => ~Answered(r))

\* C17 witness: a request with two URLs waits: the fetch of one never
\* returns, the fetch of the other has ended and its size is collected.
C17_Witness ==
    \E r \in ReqIds :
        /\ hreq[r].pc = "wait"
        /\ Len(task[r]) = 2
        /\ \E i, j \in DOMAIN task[r] :
              /\ task[r][i].pc = "hung"
              /\ task[r][j].pc = "done"
        /\ Len(sizes) = 1

\* C18: counts are positive: for a key incremented since the last reset
\* the stored count is at least 1, and so is every value Increment
\* returns, also when the count is at the largest int32.
C18_CountsPositive ==
    /\ \A k \in DOMAIN counter : counter[k] >= 1
    /\ \A r \in ConnIds :
          (conn[r].pc \in {"check", "done"} /\ conn[r].rank > 0) =>
              conn[r].current >= 1

\* C19: a request answered 429 is counted as a delegated one is: the
\* stored count of a key is the number of its requests counted since the
\* last reset, those delegated, those answered 429 and those not yet
\* answered, and goes beyond the limit.
C19_RejectedAreCounted ==
    /\ \A k \in Keys :
          MapGet(counter, k)
            = Cardinality({r \in Stored(k) : Delegated(r)})
              + Cardinality({r \in Stored(k) : Rejected(r)})
              + Cardinality({r \in Stored(k) : conn[r].pc # "done"})
    /\ \A r \in Decided :
          Rejected(r) =>
              /\ conn[r].rank > limit
              /\ conn[r].win => MapGet(counter, conn[r].reqIP) >= conn[r].rank

\* C19 witness: a key with limit requests delegated and two answered 429
\* in one window: the stored count is limit + 2.
C19_Witness ==
    \E k \in Keys :
        /\ Cardinality({r \in Stored(k) : Delegated(r)}) = limit
        /\ Cardinality({r \in Stored(k) : Rejected(r)}) = 2
        /\ MapGet(counter, k) = limit + 2

\* C20: requests handled one after another do not leak into each other:
\* each fan-out starts from an empty collector, and the response of a
\* request holds the sizes of its own fetches, one line per URL line of its
\* own body, whatever the requests before it were.
C20_NoLeakInTurn ==
    /\ [][\A r \in ReqIds :
            (hreq[r].pc = "getRespSizes" /\ hreq'[r].pc = "range") =>
                sizes' = << >>]_vars
    /\ [](\A r \in ReqIds :
            (Answered(r) /\ hreq[r].status = StatusOK) =>
                /\ TaskUrls(r) = OwnUrls(r)
                /\ Len(RespSizes(hreq[r].resp)) = Len(OwnUrls(r))
                /\ BagOf(RespSizes(hreq[r].resp)) = BagOf(TaskSizes(r)))

\* C20 witness: the second request is answered with its own size only,
\* after a first request that was answered with another size.
C20_Witness ==
    \E r, q \in ReqIds :
        /\ q < r
        /\ Answered(q) /\ hreq[q].status = StatusOK
        /\ Answered(r) /\ hreq[r].status = StatusOK
        /\ Len(RespSizes(hreq[q].resp)) = 1
        /\ Len(RespSizes(hreq[r].resp)) = 1
        /\ RespSizes(hreq[q].resp) # RespSizes(hreq[r].resp)

====
